---- MODULE Spec2Model ----
(***************************************************************************)
(* Tunnel lifecycle of the winrm_iap connection plugin                     *)
(* (plugins/connection/winrm_iap.py): Connection._connect, reset, close,   *)
(* _start_iap_tunnel and _stop_iap_tunnel, together with the tunnel        *)
(* subprocesses (gcloud compute start-iap-tunnel) and the wrapped WinRM    *)
(* connection as the environment.                                          *)
(*                                                                         *)
(* Time is counted in half seconds (the sleep of line 303 is one tick).    *)
(* time.time() is taken to be non-decreasing.  None is 0 for process and   *)
(* port values and "None" for string values.                               *)
(***************************************************************************)
EXTENDS Integers, Sequences, FiniteSets, TLC

\* ---------------------------------------------------------------- bounds
AdapterIds == {1, 2}
MaxSpawn == 2
MaxLines == 2
TunnelTimeout == 2

\* ------------------------------------------------------ program constants
DefaultWinrmPort == 5986
TicksPerSecond == 2
SelectTicks == 2
ProbeTicks == 2
SleepTicks == 1

LocalPorts == {54321, 9000}
Pids == 1..MaxSpawn
InventoryHost == "winhost"
DeadlineTicks == TunnelTimeout * TicksPerSecond

LineKinds == {"noise", "listening", "picking"}
\* the diagnostic lines a tunnel process writes: one without a port, and the
\* two announcements "Listening on port [54321]" and
\* "Picking local unused port [9000]"
\* kind says which of the two phrases of port_re the line contains, digits
\* are the characters between the brackets
Lines ==
  { [kind |-> "noise", digits |-> << >>],
    [kind |-> "listening", digits |-> << 5, 4, 3, 2, 1 >>],
    [kind |-> "picking", digits |-> << 9, 0, 0, 0 >>] }

\* int() of a string of decimal digits
RECURSIVE int(_)
int(ds) ==
  IF ds = << >> THEN 0
  ELSE 10 * int(SubSeq(ds, 1, Len(ds) - 1)) + ds[Len(ds)]

\* variant of line 249 that knows only the phrase 'Listening on port'
port_re_ListeningOnly(line) ==
  IF line.kind = "listening" /\ line.digits # << >>
  THEN int(line.digits) ELSE 0

\* line 249 and lines 273-275: port_re.search(line) and int(m.group(1)), the
\* captured integer, or 0 when there is no match
port_re(line) ==
  IF line.kind \in {"listening", "picking"} /\ line.digits # << >>
  THEN int(line.digits) ELSE 0

Min(x, y) == IF x < y THEN x ELSE y

VARIABLES
  adapters,          \* Connection instances that exist
  iap_tunnel_proc,   \* self._iap_tunnel_proc: 0 (None) or a pid
  iap_local_port,    \* self._iap_local_port: 0 (None) or a port
  connected,         \* self._connected
  protocol,          \* self.protocol: "None" or "session"
  shell_id,          \* self.shell_id: "None" or "shell"
  opts,              \* the options read with get_option / set with set_option
  NO_PROXY,          \* os.environ['NO_PROXY'], "unset" when absent
  pc,                \* position of the running call, "idle" between calls
  op,                \* the public method called last
  ret,               \* where _stop_iap_tunnel was called from
  result,            \* how the last call ended
  errinfo,           \* what the last failure message carries
  local_port,        \* the local of _connect that holds the returned port
  elapsed,           \* time.time() minus the start time of the deadline
  collected_stderr,  \* the local list of _start_iap_tunnel
  stderr,            \* unread lines in the stderr pipe of the held process
  pstat,             \* per pid: "unborn", "running", its return code while
                     \* it is a zombie, "reaped", "foreign" once the pid
                     \* belongs to an unrelated process, "gone" when dropped
  plisten,           \* per pid: the local port it accepts connections on
  pending,           \* per pid: the last signal delivered to its group
  owner,             \* per pid: the adapter that spawned it
  cmd,               \* per adapter: instance and remote port of its last launch
  first_cmd,         \* per adapter: instance and remote port of its first launch
  nextPid,           \* the pid the next Popen gets
  callPid,           \* the pid spawned by the running (or last) call
  portFrom,          \* the pid whose output iap_local_port was parsed from
  sigs,              \* signals sent by the running (or last) call
  probing,           \* while the port is probed: when probing began and the
                     \* TCP connection attempts made since
  returned,          \* the port the last _start_iap_tunnel returned, 0 once a
                     \* failure, a reset or a close has come after it
  module             \* one run of the gcp_reset_windows_password module

vars ==
  << adapters, iap_tunnel_proc, iap_local_port, connected, protocol, shell_id,
     opts, NO_PROXY, pc, op, ret, result, errinfo, local_port, elapsed,
     collected_stderr, stderr, pstat, plisten, pending, owner, cmd,
     first_cmd, nextPid, callPid, portFrom, sigs, probing, returned,
     module >>

adapterVars ==
  << iap_tunnel_proc, iap_local_port, connected, protocol, shell_id, opts >>
frameVars ==
  << pc, op, ret, result, errinfo, local_port, elapsed, collected_stderr,
     returned >>
procVars == << pstat, plisten, pending, owner, cmd, first_cmd, nextPid >>
ghostVars == << callPid, portFrom, sigs, probing >>

NoProbing == [since |-> 0, attempts |-> 0]

NoError == [rc |-> "None", text |-> << >>]
NoCmd == [instance |-> "None", port |-> 0]

\* the configurations of a host: every instance name and port setting with
\* certificate validation unset, every certificate validation setting, and a
\* missing project or zone
Configs ==
  [ remote_addr : {InventoryHost},
    port : {0, DefaultWinrmPort},
    cert_validation : {"unset"},
    gcp_project : {"proj"},
    gcp_zone : {"zone"},
    gcp_instance_name : {"None", "inst"} ]
  \cup
  [ remote_addr : {InventoryHost},
    port : {DefaultWinrmPort},
    cert_validation : {"ignore", "validate"},
    gcp_project : {"proj"},
    gcp_zone : {"zone"},
    gcp_instance_name : {"inst"} ]
  \cup
  { c \in [ remote_addr : {InventoryHost},
            port : {DefaultWinrmPort},
            cert_validation : {"unset"},
            gcp_project : {"None", "proj"},
            gcp_zone : {"None", "zone"},
            gcp_instance_name : {"inst"} ] :
      c.gcp_project = "None" \/ c.gcp_zone = "None" }

\* the configuration of the EXAMPLES block, with the port set
ExampleConfig ==
  [ remote_addr |-> InventoryHost,
    port |-> DefaultWinrmPort,
    cert_validation |-> "ignore",
    gcp_project |-> "proj",
    gcp_zone |-> "zone",
    gcp_instance_name |-> "inst" ]

\* the environment the worker process starts with: NO_PROXY unset, or (with
\* the example configuration) set by the user
Environments(cfg) ==
  {"unset"} \cup (IF cfg = ExampleConfig THEN {"corp.example"} ELSE {})

\* Connection.__init__ for the adapters in as, every adapter with config cfg,
\* in a worker process with NO_PROXY as in env
InitWith(as, cfg, env) ==
  /\ adapters = as
  /\ iap_tunnel_proc = [a \in AdapterIds |-> 0]
  /\ iap_local_port = [a \in AdapterIds |-> 0]
  /\ connected = [a \in AdapterIds |-> FALSE]
  /\ protocol = [a \in AdapterIds |-> "None"]
  /\ shell_id = [a \in AdapterIds |-> "None"]
  /\ opts = [a \in AdapterIds |-> cfg]
  /\ NO_PROXY = env
  /\ pc = [a \in AdapterIds |-> "idle"]
  /\ op = [a \in AdapterIds |-> "none"]
  /\ ret = [a \in AdapterIds |-> "none"]
  /\ result = [a \in AdapterIds |-> "none"]
  /\ errinfo = [a \in AdapterIds |-> NoError]
  /\ local_port = [a \in AdapterIds |-> 0]
  /\ elapsed = [a \in AdapterIds |-> 0]
  /\ collected_stderr = [a \in AdapterIds |-> << >>]
  /\ stderr = [a \in AdapterIds |-> << >>]
  /\ pstat = [p \in Pids |-> "unborn"]
  /\ plisten = [p \in Pids |-> 0]
  /\ pending = [p \in Pids |-> "none"]
  /\ owner = [p \in Pids |-> 0]
  /\ cmd = [a \in AdapterIds |-> NoCmd]
  /\ first_cmd = [a \in AdapterIds |-> NoCmd]
  /\ nextPid = 1
  /\ callPid = [a \in AdapterIds |-> 0]
  /\ portFrom = [a \in AdapterIds |-> 0]
  /\ sigs = [a \in AdapterIds |-> << >>]
  /\ probing = [a \in AdapterIds |-> NoProbing]
  /\ returned = [a \in AdapterIds |-> 0]

\* the module has not been invoked
NotInvoked ==
  [ pc |-> "m_none", vault_encrypt |-> FALSE, vault_password_file |-> "None",
    user |-> "None", stdout |-> "None", gcloud_runs |-> 0, files |-> {},
    result |-> "none", output |-> << >> ]

Init ==
  /\ \E cfg \in Configs : \E env \in Environments(cfg) :
       InitWith({1}, cfg, env)
  /\ module = NotInvoked

\* ------------------------------------------------------------- call frame
Goto(a, label) == pc' = [pc EXCEPT ![a] = label]

\* what the public method returns when it ends normally
RetVal(a) == IF op[a] = "connect" THEN "self" ELSE "None"

\* a call of a public method begins: only when the adapter is idle
Begin(a, method, first) ==
  /\ a \in adapters
  /\ pc[a] = "idle"
  /\ Goto(a, first)
  /\ op' = [op EXCEPT ![a] = method]
  /\ ret' = [ret EXCEPT ![a] = method]
  /\ result' = [result EXCEPT ![a] = "running"]
  /\ errinfo' = [errinfo EXCEPT ![a] = NoError]
  /\ callPid' = [callPid EXCEPT ![a] = 0]
  /\ sigs' = [sigs EXCEPT ![a] = << >>]
  /\ returned' = [returned EXCEPT ![a] = IF method = "connect" THEN @ ELSE 0]
  /\ UNCHANGED << adapters, module, adapterVars, NO_PROXY, local_port, elapsed,
                  collected_stderr, stderr, procVars, portFrom, probing >>

\* the running call ends (a return, or an exception reaching the caller);
\* the locals of its frames go away
Finish(a, how, info) ==
  /\ Goto(a, "idle")
  /\ result' = [result EXCEPT ![a] = how]
  /\ errinfo' = [errinfo EXCEPT ![a] = info]
  /\ ret' = [ret EXCEPT ![a] = "none"]
  /\ local_port' = [local_port EXCEPT ![a] = 0]
  /\ elapsed' = [elapsed EXCEPT ![a] = 0]
  /\ collected_stderr' = [collected_stderr EXCEPT ![a] = << >>]
  /\ returned' = [returned EXCEPT ![a] =
                    IF how \in {"self", "None", "winrm_error"} THEN @ ELSE 0]
  /\ UNCHANGED op

\* a step inside the running call that only moves on
Step(a, label) ==
  /\ Goto(a, label)
  /\ UNCHANGED << op, ret, result, errinfo, local_port, elapsed,
                  collected_stderr, returned >>

\* the caller invokes connect(), reset() (which starts with line 357) or
\* close() on an adapter
CallConnect(a) ==
  /\ a \in adapters
  /\ Begin(a, "connect", "c_check")

\* variant of reset() without line 357
CallReset_NoStop(a) ==
  /\ a \in adapters
  /\ Begin(a, "reset", "r_clear")

CallReset(a) ==
  /\ a \in adapters
  /\ Begin(a, "reset", "t_entry")

CallClose(a) ==
  /\ a \in adapters
  /\ Begin(a, "close", "x_super")

\* --------------------------------------------------------------- helpers
Running(p) == p # 0 /\ pstat[p] = "running"

\* the Popen object of process p is dropped: the return code of an exited
\* process can no longer be read by anyone
Released(p) ==
  IF p # 0 /\ pstat[p] # "running" THEN [pstat EXCEPT ![p] = "gone"] ELSE pstat

\* Popen.poll() or Popen.wait() meets a process that has exited: its exit
\* status is collected (waitpid) and kept in the Popen object, and the
\* operating system is free to give the pid to another process
Reaped(p) ==
  IF p # 0 /\ pstat[p] \notin {"unborn", "running", "reaped", "foreign", "gone"}
  THEN [pstat EXCEPT ![p] = "reaped"]
  ELSE pstat

\* Popen.poll() is None
PollIsNone(a) == Running(iap_tunnel_proc[a])

\* socket.create_connection(('localhost', port)) succeeds: some running
\* process accepts connections on that port
Accepts(port) == \E p \in Pids : pstat[p] = "running" /\ plisten[p] = port

\* _get_iap_instance_name
get_iap_instance_name(a) ==
  IF opts[a].gcp_instance_name # "None" THEN opts[a].gcp_instance_name
  ELSE IF opts[a].remote_addr # "None" THEN opts[a].remote_addr
  ELSE InventoryHost

\* remote_port = self.get_option('port') or 5986
remote_port(a) == IF opts[a].port # 0 THEN opts[a].port ELSE DefaultWinrmPort

\* ------------------------------------------------------------- _connect
\* variant of line 332 without the early return
AlreadyConnected_Never(a) == FALSE

\* line 332
AlreadyConnected(a) == connected[a]

\* variant of line 339 with a plain assignment, os.environ['NO_PROXY'] =
\* 'localhost'
setdefault_no_proxy_Assign(v) == "localhost"

\* os.environ.setdefault('NO_PROXY', 'localhost')
setdefault_no_proxy(v) == IF v = "unset" THEN "localhost" ELSE v

\* lines 332-339: the no-op of a connected adapter, else the NO_PROXY default
ConnectCheck(a) ==
  /\ a \in adapters
  /\ pc[a] = "c_check"
  /\ IF AlreadyConnected(a)
     THEN /\ Finish(a, RetVal(a), NoError)
          /\ UNCHANGED NO_PROXY
     ELSE /\ Step(a, "s_entry")
          /\ NO_PROXY' = setdefault_no_proxy(NO_PROXY)
  /\ UNCHANGED << adapters, module, adapterVars, stderr, procVars, ghostVars >>

\* extras.setdefault('ansible_winrm_server_cert_validation', 'ignore')
setdefault_cert(v) == IF v = "unset" THEN "ignore" ELSE v

\* lines 345-351: rewrite the target to the local end of the tunnel
ConnectSetOptions(a) ==
  /\ a \in adapters
  /\ pc[a] = "c_setopt"
  /\ opts' = [opts EXCEPT ![a].remote_addr = "localhost",
                          ![a].port = local_port[a],
                          ![a].cert_validation = setdefault_cert(@)]
  /\ Step(a, "c_winrm")
  /\ UNCHANGED << adapters, module, iap_tunnel_proc, iap_local_port, connected,
                  protocol, shell_id, NO_PROXY, stderr, procVars, ghostVars >>

\* line 354: super()._connect() of the wrapped WinRM connection, which
\* opens a session when none is cached, or raises
WinrmConnect(a) ==
  /\ a \in adapters
  /\ pc[a] = "c_winrm"
  /\ \/ /\ protocol' = [protocol EXCEPT ![a] = "session"]
        /\ shell_id' = [shell_id EXCEPT ![a] = "shell"]
        /\ connected' = [connected EXCEPT ![a] = TRUE]
        /\ Finish(a, RetVal(a), NoError)
     \/ /\ UNCHANGED << protocol, shell_id, connected >>
        /\ Finish(a, "winrm_error", NoError)
  /\ UNCHANGED << adapters, module, iap_tunnel_proc, iap_local_port, opts, NO_PROXY,
                  stderr, procVars, ghostVars >>

\* ---------------------------------------------------------------- reset
\* lines 358-363, after _stop_iap_tunnel has returned
ResetClear(a) ==
  /\ a \in adapters
  /\ pc[a] = "r_clear"
  /\ protocol' = [protocol EXCEPT ![a] = "None"]
  /\ shell_id' = [shell_id EXCEPT ![a] = "None"]
  /\ connected' = [connected EXCEPT ![a] = FALSE]
  /\ Step(a, "c_check")
  /\ UNCHANGED << adapters, module, iap_tunnel_proc, iap_local_port, opts, NO_PROXY,
                  stderr, procVars, ghostVars >>

\* ---------------------------------------------------------------- close
\* line 366: super().close() drops the session, or raises while closing the
\* remote shell; line 367 is reached only when it returns
SuperClose(a) ==
  /\ a \in adapters
  /\ pc[a] = "x_super"
  /\ \/ /\ protocol' = [protocol EXCEPT ![a] = "None"]
        /\ shell_id' = [shell_id EXCEPT ![a] = "None"]
        /\ connected' = [connected EXCEPT ![a] = FALSE]
        /\ Step(a, "t_entry")
     \/ /\ protocol[a] # "None"
        /\ UNCHANGED << protocol, shell_id, connected >>
        /\ Finish(a, "close_error", NoError)
  /\ UNCHANGED << adapters, module, iap_tunnel_proc, iap_local_port, opts, NO_PROXY,
                  stderr, procVars, ghostVars >>

\* ---------------------------------------------------- _start_iap_tunnel
\* variants of line 208: without the early return, and with the poll inverted
TunnelAlive_Never(a) == FALSE
TunnelAlive_Inverted(a) == iap_tunnel_proc[a] # 0 /\ ~PollIsNone(a)

\* line 208: a handle is held and its process has not exited
TunnelAlive(a) == iap_tunnel_proc[a] # 0 /\ PollIsNone(a)

\* variant of lines 217-220 that does not look at the zone
ConfigError_ProjectOnly(a) ==
  IF opts[a].gcp_project = "None" THEN "gcp_project is required" ELSE "None"

\* lines 217-220: the error of a missing project or zone, "None" without one
ConfigError(a) ==
  IF opts[a].gcp_project = "None" THEN "gcp_project is required"
  ELSE IF opts[a].gcp_zone = "None" THEN "gcp_zone is required"
  ELSE "None"

\* lines 208-220: return the held port of a live tunnel, else validate
StartEntry(a) ==
  /\ a \in adapters
  /\ pc[a] = "s_entry"
  /\ IF TunnelAlive(a)
     THEN /\ Goto(a, "c_setopt")
          /\ local_port' = [local_port EXCEPT ![a] = iap_local_port[a]]
          /\ returned' = [returned EXCEPT ![a] = iap_local_port[a]]
          /\ UNCHANGED << op, ret, result, errinfo, elapsed, collected_stderr >>
     ELSE IF ConfigError(a) # "None"
     THEN Finish(a, "AnsibleError", [rc |-> ConfigError(a), text |-> << >>])
     ELSE Step(a, "s_spawn")
  /\ pstat' = Reaped(iap_tunnel_proc[a])
  /\ UNCHANGED << adapters, module, adapterVars, NO_PROXY, stderr, plisten, pending,
                  owner, cmd, first_cmd, nextPid, ghostVars >>

\* lines 222-228: the instance and the remote port of the command line
command(a) == [instance |-> get_iap_instance_name(a), port |-> remote_port(a)]

\* lines 239-251: Popen in a new session, or Popen raising OSError; then the
\* deadline is set
Spawn(a) ==
  /\ a \in adapters
  /\ pc[a] = "s_spawn"
  /\ \/ /\ nextPid \in Pids
        /\ iap_tunnel_proc' = [iap_tunnel_proc EXCEPT ![a] = nextPid]
        /\ pstat' = [Released(iap_tunnel_proc[a]) EXCEPT ![nextPid] = "running"]
        /\ owner' = [owner EXCEPT ![nextPid] = a]
        /\ cmd' = [cmd EXCEPT ![a] = command(a)]
        /\ first_cmd' = [first_cmd EXCEPT ![a] =
                           IF @ = NoCmd THEN command(a) ELSE @]
        /\ nextPid' = nextPid + 1
        /\ callPid' = [callPid EXCEPT ![a] = nextPid]
        /\ stderr' = [stderr EXCEPT ![a] = << >>]
        /\ Goto(a, "s_p1_head")
        /\ elapsed' = [elapsed EXCEPT ![a] = 0]
        /\ collected_stderr' = [collected_stderr EXCEPT ![a] = << >>]
        /\ UNCHANGED << op, ret, result, errinfo, local_port, returned >>
     \/ /\ Finish(a, "OSError", NoError)
        /\ UNCHANGED << iap_tunnel_proc, pstat, owner, cmd, first_cmd,
                        nextPid, callPid, stderr >>
  /\ UNCHANGED << adapters, module, iap_local_port, connected, protocol, shell_id,
                  opts, NO_PROXY, plisten, pending, portFrom, sigs,
                  probing >>

\* variant in which the probe loop is not bounded by the deadline of port
\* discovery
BeforeDeadline_DiscoveryOnly(a) ==
  elapsed[a] < DeadlineTicks \/ pc[a] = "s_p2_head"

\* variant of the loop tests with <= in place of <
BeforeDeadline_Inclusive(a) == elapsed[a] <= DeadlineTicks

\* time.time() < deadline
BeforeDeadline(a) == elapsed[a] < DeadlineTicks

\* time passing in a blocking call
Advance(a, d) ==
  elapsed' = [elapsed EXCEPT ![a] = Min(elapsed[a] + d, DeadlineTicks)]

\* _stop_iap_tunnel is called from inside _start_iap_tunnel
CallStop(a, from) ==
  /\ Goto(a, "t_entry")
  /\ ret' = [ret EXCEPT ![a] = from]
  /\ UNCHANGED << op, result, errinfo, local_port, elapsed, collected_stderr,
                  returned >>

\* the return code in the message of a failure
ReturnCode(a) == pstat[iap_tunnel_proc[a]]

\* variant of lines 256-257 that reports only what stderr.read() returns
ExitMessage_RemainingOnly(a) == stderr[a]

\* lines 256-257: the lines collected so far, then the rest of the pipe
ExitMessage(a) == collected_stderr[a] \o stderr[a]

\* lines 254-261 and 279-284: the loop test of phase 1, the poll, and what
\* follows the loop when the deadline has passed
DiscoverHead(a) ==
  /\ a \in adapters
  /\ pc[a] = "s_p1_head"
  /\ IF ~BeforeDeadline(a)
     THEN /\ IF iap_local_port[a] = 0
             THEN /\ CallStop(a, "discovery")
                  /\ UNCHANGED probing
             ELSE /\ Step(a, "s_p2_head")
                  /\ probing' = [probing EXCEPT ![a] =
                                   [since |-> elapsed[a], attempts |-> 0]]
          /\ stderr' = [stderr EXCEPT ![a] = << >>]
          /\ UNCHANGED pstat
     ELSE IF ~PollIsNone(a)
     THEN /\ Finish(a, "tunnel_exited",
                    [rc |-> ReturnCode(a),
                     text |-> ExitMessage(a)])
          /\ stderr' = [stderr EXCEPT ![a] = << >>]
          /\ pstat' = Reaped(iap_tunnel_proc[a])
          /\ UNCHANGED probing
     ELSE /\ Step(a, "s_p1_select")
          /\ UNCHANGED << stderr, pstat, probing >>
  /\ UNCHANGED << adapters, module, adapterVars, NO_PROXY, plisten, pending, owner,
                  cmd, first_cmd, nextPid, callPid, portFrom, sigs >>

\* lines 263-277: select with a one second timeout and readline.  An empty
\* pipe of a process that has exited since the poll is at end of file.
DiscoverSelect(a) ==
  /\ a \in adapters
  /\ pc[a] = "s_p1_select"
  /\ IF stderr[a] # << >>
     THEN LET line == Head(stderr[a]) IN
          /\ stderr' = [stderr EXCEPT ![a] =
                          IF port_re(line) # 0 THEN << >> ELSE Tail(@)]
          /\ collected_stderr' =
               [collected_stderr EXCEPT ![a] = Append(@, line)]
          /\ \E d \in 0..SelectTicks : Advance(a, d)
          /\ IF port_re(line) # 0
             THEN /\ iap_local_port' =
                       [iap_local_port EXCEPT ![a] = port_re(line)]
                  /\ portFrom' = [portFrom EXCEPT ![a] = iap_tunnel_proc[a]]
                  /\ probing' = [probing EXCEPT ![a] =
                                   [since |-> elapsed'[a], attempts |-> 0]]
                  /\ Goto(a, "s_p2_head")
             ELSE /\ UNCHANGED << iap_local_port, portFrom, probing >>
                  /\ Goto(a, "s_p1_head")
     ELSE /\ IF PollIsNone(a) THEN Advance(a, SelectTicks)
                              ELSE UNCHANGED elapsed
          /\ Goto(a, "s_p1_head")
          /\ UNCHANGED << stderr, collected_stderr, iap_local_port, portFrom,
                          probing >>
  /\ UNCHANGED << adapters, module, iap_tunnel_proc, connected, protocol, shell_id,
                  opts, NO_PROXY, op, ret, result, errinfo, local_port,
                  returned, procVars, callPid, sigs >>

\* lines 287-292 and 305-310: the loop test of phase 2 and the poll
ProbeHead(a) ==
  /\ a \in adapters
  /\ pc[a] = "s_p2_head"
  /\ IF ~BeforeDeadline(a)
     THEN /\ CallStop(a, "readiness")
          /\ UNCHANGED << pstat, probing >>
     ELSE IF ~PollIsNone(a)
     THEN /\ Finish(a, "tunnel_died",
                    [rc |-> ReturnCode(a), text |-> << >>])
          /\ pstat' = Reaped(iap_tunnel_proc[a])
          /\ probing' = [probing EXCEPT ![a] = NoProbing]
     ELSE /\ Step(a, "s_p2_probe")
          /\ UNCHANGED << pstat, probing >>
  /\ UNCHANGED << adapters, module, adapterVars, NO_PROXY, stderr, plisten, pending,
                  owner, cmd, first_cmd, nextPid, callPid, portFrom, sigs >>

\* variant of line 303 that sleeps five seconds
ProbeDelays_Sleep5 == (10 * SleepTicks)..(ProbeTicks + 10 * SleepTicks)

\* lines 294-303: the time a failed attempt takes, from a connection refused
\* at once to a connect that times out, plus the sleep
ProbeDelays == SleepTicks..(ProbeTicks + SleepTicks)

\* lines 293-303: one TCP connect with a one second timeout; on success the
\* port is returned to _connect, on failure sleep half a second
Probe(a) ==
  /\ a \in adapters
  /\ pc[a] = "s_p2_probe"
  /\ IF Accepts(iap_local_port[a])
     THEN /\ Goto(a, "c_setopt")
          /\ local_port' = [local_port EXCEPT ![a] = iap_local_port[a]]
          /\ returned' = [returned EXCEPT ![a] = iap_local_port[a]]
          /\ probing' = [probing EXCEPT ![a] = NoProbing]
          /\ UNCHANGED elapsed
     ELSE /\ Goto(a, "s_p2_head")
          /\ \E d \in ProbeDelays : Advance(a, d)
          /\ probing' = [probing EXCEPT ![a].attempts = @ + 1]
          /\ UNCHANGED << local_port, returned >>
  /\ UNCHANGED << adapters, module, adapterVars, NO_PROXY, op, ret, result, errinfo,
                  collected_stderr, stderr, procVars, callPid, portFrom,
                  sigs >>

\* ----------------------------------------------------- _stop_iap_tunnel
\* os.killpg(os.getpgid(pid), sig) inside try/except OSError: the signal
\* reaches the group of a running process; for a process that has exited the
\* call has no effect or raises OSError, which is swallowed
killpg(p, sig) ==
  pending' = IF pstat[p] = "running" THEN [pending EXCEPT ![p] = sig]
             ELSE pending

\* whose process group os.getpgid(pid) names at the time of the call: the
\* group of the tunnel while the process has not been reaped, nobody's
\* (ProcessLookupError) once it has, and the group of an unrelated process
\* when the pid has been given out again
Target(p) ==
  CASE pstat[p] = "foreign" -> "foreign"
    [] pstat[p] = "reaped" -> "nobody"
    [] OTHER -> "tunnel"

\* the record of one killpg call
Sent(p, sig) == [sig |-> sig, pid |-> p, to |-> Target(p)]

\* what follows the return of _stop_iap_tunnel at each of its call sites:
\* reset goes on with line 358, close returns, _start_iap_tunnel raises
AfterStop(a) ==
  CASE ret[a] = "reset" -> Step(a, "r_clear")
    [] ret[a] = "close" -> Finish(a, RetVal(a), NoError)
    [] ret[a] = "discovery" ->
         Finish(a, "discovery_timeout",
                [rc |-> "None", text |-> collected_stderr[a]])
    [] ret[a] = "readiness" ->
         Finish(a, "readiness_timeout",
                [rc |-> "None", text |-> collected_stderr[a]])

\* lines 328-329
ClearHandle(a) ==
  /\ iap_tunnel_proc' = [iap_tunnel_proc EXCEPT ![a] = 0]
  /\ iap_local_port' = [iap_local_port EXCEPT ![a] = 0]
  /\ portFrom' = [portFrom EXCEPT ![a] = 0]
  /\ pstat' = Released(iap_tunnel_proc[a])

\* lines 314-319: nothing to do without a process, else SIGTERM to its group
StopEntry(a) ==
  /\ a \in adapters
  /\ pc[a] = "t_entry"
  /\ IF iap_tunnel_proc[a] = 0
     THEN /\ AfterStop(a)
          /\ sigs' = [sigs EXCEPT ![a] = << >>]
          /\ UNCHANGED pending
     ELSE /\ killpg(iap_tunnel_proc[a], "SIGTERM")
          /\ sigs' = [sigs EXCEPT ![a] = << Sent(iap_tunnel_proc[a], "SIGTERM") >>]
          /\ Step(a, "t_wait1")
  /\ probing' = [probing EXCEPT ![a] = NoProbing]
  /\ UNCHANGED << adapters, module, adapterVars, NO_PROXY, stderr, pstat, plisten,
                  owner, cmd, first_cmd, nextPid, callPid, portFrom >>

\* variant of lines 320-324 that sends SIGKILL whatever the wait returns
WaitExpired_Always(a) == TRUE

\* lines 321-322: wait(timeout=5) raises TimeoutExpired, which is when the
\* process is still running after the grace period
WaitExpired(a) == PollIsNone(a)

\* lines 320-326: wait(timeout=5) returns once the process has exited and the
\* handle is cleared; when it is still running after the grace period the
\* wait raises TimeoutExpired and SIGKILL is sent
StopWait(a) ==
  /\ a \in adapters
  /\ pc[a] = "t_wait1"
  /\ IF ~WaitExpired(a)
     THEN /\ ClearHandle(a)
          /\ AfterStop(a)
          /\ UNCHANGED << pending, sigs >>
     ELSE /\ killpg(iap_tunnel_proc[a], "SIGKILL")
          /\ sigs' = [sigs EXCEPT ![a] =
                            Append(@, Sent(iap_tunnel_proc[a], "SIGKILL"))]
          /\ Step(a, "t_wait2")
          /\ UNCHANGED << iap_tunnel_proc, iap_local_port, portFrom, pstat >>
  /\ UNCHANGED << adapters, module, connected, protocol, shell_id, opts, NO_PROXY,
                  stderr, plisten, owner, cmd, first_cmd, nextPid, callPid,
                  probing >>

\* line 327: the second wait(timeout=5) is outside any try: when the process
\* is still running TimeoutExpired leaves _stop_iap_tunnel
StopWaitKilled(a) ==
  /\ a \in adapters
  /\ pc[a] = "t_wait2"
  /\ IF ~PollIsNone(a)
     THEN /\ ClearHandle(a)
          /\ AfterStop(a)
     ELSE /\ Finish(a, "TimeoutExpired", NoError)
          /\ UNCHANGED << iap_tunnel_proc, iap_local_port, portFrom, pstat >>
  /\ UNCHANGED << adapters, module, connected, protocol, shell_id, opts, NO_PROXY,
                  stderr, plisten, pending, owner, cmd, first_cmd, nextPid,
                  callPid, sigs, probing >>

\* ---------------------------------------------------------- environment
\* the tunnel process writes a line to its stderr while the adapter is in
\* port discovery (the pipe is not read at any other time)
ProcEmit(a, line) ==
  /\ a \in adapters
  /\ pc[a] \in {"s_p1_head", "s_p1_select"}
  /\ PollIsNone(a)
  /\ Len(stderr[a]) + Len(collected_stderr[a]) < MaxLines
  /\ stderr' = [stderr EXCEPT ![a] = Append(@, line)]
  /\ UNCHANGED << adapters, module, adapterVars, NO_PROXY, frameVars, procVars,
                  ghostVars >>

\* a tunnel process starts to accept connections on a free local port; it
\* matters from the first probe of its adapter on
ProcListen(p, port) ==
  /\ pstat[p] = "running"
  /\ pc[owner[p]] \in {"s_p2_head", "s_p2_probe"}
  /\ plisten[p] = 0
  /\ ~Accepts(port)
  /\ plisten' = [plisten EXCEPT ![p] = port]
  /\ UNCHANGED << adapters, module, adapterVars, NO_PROXY, frameVars, stderr, pstat,
                  pending, owner, cmd, first_cmd, nextPid, ghostVars >>

\* the return codes a process can end with: its own, or minus the signal
ExitCodes(p) ==
  {"rc=0", "rc=1"} \cup
    (IF pending[p] = "SIGTERM" THEN {"rc=-15"} ELSE {}) \cup
    (IF pending[p] = "SIGKILL" THEN {"rc=-9"} ELSE {})

\* a tunnel process exits, on its own or of a signal
ProcExit(p, rc) ==
  /\ pstat[p] = "running"
  /\ rc \in ExitCodes(p)
  /\ pstat' = [pstat EXCEPT ![p] = rc]
  /\ plisten' = [plisten EXCEPT ![p] = 0]
  /\ pending' = [pending EXCEPT ![p] = "none"]
  /\ UNCHANGED << adapters, module, adapterVars, NO_PROXY, frameVars, stderr, owner,
                  cmd, first_cmd, nextPid, ghostVars >>

AllExitCodes == {"rc=0", "rc=1", "rc=-15", "rc=-9"}

\* the operating system gives the pid of a reaped process, which a Popen
\* object still names, to an unrelated process; it matters when the adapter
\* is about to signal that pid
PidReuse(p) ==
  /\ pstat[p] = "reaped"
  /\ pc[owner[p]] = "t_entry"
  /\ pstat' = [pstat EXCEPT ![p] = "foreign"]
  /\ UNCHANGED << adapters, module, adapterVars, NO_PROXY, frameVars, stderr, plisten,
                  pending, owner, cmd, first_cmd, nextPid, ghostVars >>

Next ==
  \/ \E a \in AdapterIds : CallConnect(a)
  \/ \E a \in AdapterIds : CallReset(a)
  \/ \E a \in AdapterIds : CallClose(a)
  \/ \E a \in AdapterIds : ConnectCheck(a)
  \/ \E a \in AdapterIds : ConnectSetOptions(a)
  \/ \E a \in AdapterIds : WinrmConnect(a)
  \/ \E a \in AdapterIds : ResetClear(a)
  \/ \E a \in AdapterIds : SuperClose(a)
  \/ \E a \in AdapterIds : StartEntry(a)
  \/ \E a \in AdapterIds : Spawn(a)
  \/ \E a \in AdapterIds : DiscoverHead(a)
  \/ \E a \in AdapterIds : DiscoverSelect(a)
  \/ \E a \in AdapterIds : ProbeHead(a)
  \/ \E a \in AdapterIds : Probe(a)
  \/ \E a \in AdapterIds : StopEntry(a)
  \/ \E a \in AdapterIds : StopWait(a)
  \/ \E a \in AdapterIds : StopWaitKilled(a)
  \/ \E a \in AdapterIds, line \in Lines : ProcEmit(a, line)
  \/ \E p \in Pids, port \in LocalPorts : ProcListen(p, port)
  \/ \E p \in Pids, rc \in AllExitCodes : ProcExit(p, rc)
  \/ \E p \in Pids : PidReuse(p)

Spec == Init /\ [][Next]_vars

\* the next statement of the call that adapter a is running; every blocking
\* call in it has a timeout (select 1 s, create_connection 1 s, sleep 0.5 s,
\* wait 5 s) and readline returns the line select has announced
AdapterStep(a) ==
  \/ ConnectCheck(a) \/ ConnectSetOptions(a) \/ WinrmConnect(a)
  \/ ResetClear(a) \/ SuperClose(a)
  \/ StartEntry(a) \/ Spawn(a)
  \/ DiscoverHead(a) \/ DiscoverSelect(a) \/ ProbeHead(a) \/ Probe(a)
  \/ StopEntry(a) \/ StopWait(a) \/ StopWaitKilled(a)

\* one adapter with the example configuration
ExampleInit == InitWith({1}, ExampleConfig, "unset") /\ module = NotInvoked

\* a call that has been entered keeps executing
FairSpec ==
  /\ ExampleInit
  /\ [][Next]_vars
  /\ \A a \in AdapterIds : WF_vars(AdapterStep(a))

\* ------------------------------------------ gcp_reset_windows_password
\* plugins/modules/gcp_reset_windows_password.py, run_module.  The gcloud
\* and ansible-vault commands and the file system are the environment.
connectionVars ==
  << adapters, adapterVars, NO_PROXY, frameVars, stderr, procVars, ghostVars >>

\* lines 90-111: the parameters that matter, with their defaults
ModuleParams ==
  [ vault_encrypt : BOOLEAN,
    vault_password_file : {"None", "", "vault_pw.txt"},
    user : {"ansible_admin", "svc"} ]

\* what gcloud prints with --format json: an object with the credentials,
\* an object without them, an array, or text that is not JSON
Stdouts == {"credentials", "empty_object", "array", "not_json"}

\* the module is invoked on a host with nothing written yet
ModuleInit ==
  /\ InitWith({1}, ExampleConfig, "unset")
  /\ \E p \in ModuleParams :
       module = [ pc |-> "m_check",
                  vault_encrypt |-> p.vault_encrypt,
                  vault_password_file |-> p.vault_password_file,
                  user |-> p.user,
                  stdout |-> "None", gcloud_runs |-> 0, files |-> {},
                  result |-> "running", output |-> << >> ]

\* module.fail_json(msg=...) ends the module process
fail_json(msg) ==
  module' = [module EXCEPT !.pc = "m_done", !.result = msg]

\* variant of line 113 that tests for None only
MissingVaultPassword_NoneOnly ==
  module.vault_encrypt /\ module.vault_password_file = "None"

\* line 113: vault_encrypt and not vault_password_file (None and the empty
\* string are both false)
MissingVaultPassword ==
  module.vault_encrypt /\ module.vault_password_file \in {"None", ""}

\* os.path.abspath(os.path.expanduser(path))
abspath(path) == "/cwd/" \o path

\* lines 113-117
ModuleCheck ==
  /\ module.pc = "m_check"
  /\ IF MissingVaultPassword
     THEN fail_json("vault_password_file is required")
     ELSE module' =
            [module EXCEPT
               !.pc = "m_gcloud",
               !.vault_password_file =
                  IF @ \in {"None", ""} THEN @ ELSE abspath(@)]
  /\ UNCHANGED connectionVars

\* lines 119-134: gcloud compute reset-windows-password is run; a return
\* code other than 0 fails the module
ModuleGcloud ==
  /\ module.pc = "m_gcloud"
  /\ \/ \E out \in Stdouts :
          module' = [module EXCEPT !.pc = "m_parse",
                                   !.gcloud_runs = @ + 1,
                                   !.stdout = out]
     \/ module' = [module EXCEPT !.pc = "m_done",
                                  !.gcloud_runs = @ + 1,
                                  !.result = "gcloud failed"]
  /\ UNCHANGED connectionVars

\* result.get('username', user) and result.get('password', '')
Credentials(out, user) ==
  IF out = "credentials" THEN << "winuser", "secret" >> ELSE << user, "" >>

\* lines 136-150: json.loads, then the credentials with their defaults; the
\* .get of line 141 raises AttributeError on an array
ModuleParse ==
  /\ module.pc = "m_parse"
  /\ IF module.stdout = "not_json"
     THEN fail_json("Failed to parse gcloud output")
     ELSE IF module.stdout = "array"
     THEN module' = [module EXCEPT !.pc = "m_done",
                                   !.result = "AttributeError"]
     ELSE module' =
            [module EXCEPT
               !.pc = IF module.vault_encrypt THEN "m_write" ELSE "m_exit",
               !.output = Credentials(module.stdout, module.user)]
  /\ UNCHANGED connectionVars

\* lines 152-162: the host directory and the temporary file in clear text
ModuleWriteTemp ==
  /\ module.pc = "m_write"
  /\ module' = [module EXCEPT !.pc = "m_encrypt",
                              !.files = @ \cup {"host_dir", "tmp_clear"}]
  /\ UNCHANGED connectionVars

\* lines 164-171: ansible-vault encrypt in place; on failure the temporary
\* file is removed and the module fails
ModuleEncrypt ==
  /\ module.pc = "m_encrypt"
  /\ \/ module' = [module EXCEPT
                      !.pc = "m_rename",
                      !.files = (@ \ {"tmp_clear"}) \cup {"tmp_encrypted"}]
     \/ module' = [module EXCEPT
                      !.pc = "m_done",
                      !.files = @ \ {"tmp_clear"},
                      !.result = "ansible-vault encrypt failed"]
  /\ UNCHANGED connectionVars

\* lines 173-175
ModuleRename ==
  /\ module.pc = "m_rename"
  /\ module' = [module EXCEPT
                  !.pc = "m_exit",
                  !.files = (@ \ {"tmp_encrypted"}) \cup {"vault.yml"},
                  !.output = Append(@, "vault.yml")]
  /\ UNCHANGED connectionVars

\* line 177
ModuleExit ==
  /\ module.pc = "m_exit"
  /\ module' = [module EXCEPT !.pc = "m_done", !.result = "exit_json"]
  /\ UNCHANGED connectionVars

ModuleNext ==
  \/ ModuleCheck
  \/ ModuleGcloud
  \/ ModuleParse
  \/ ModuleWriteTemp
  \/ ModuleEncrypt
  \/ ModuleRename
  \/ ModuleExit

ModuleSpec == ModuleInit /\ [][ModuleNext]_vars

TypeOK ==
  /\ adapters \subseteq AdapterIds
  /\ iap_tunnel_proc \in [AdapterIds -> {0} \cup Pids]
  /\ iap_local_port \in [AdapterIds -> {0} \cup LocalPorts]
  /\ connected \in [AdapterIds -> BOOLEAN]
  /\ nextPid \in 1..(MaxSpawn + 1)
  /\ \A a \in AdapterIds : elapsed[a] \in 0..DeadlineTicks

\* ------------------------------------------------------------ vocabulary
Idle(a) == pc[a] = "idle"
StopLabels == {"t_entry", "t_wait1", "t_wait2"}
HandleCleared(a) == iap_tunnel_proc[a] = 0 /\ iap_local_port[a] = 0
OwnRunning(a) == {p \in Pids : owner[p] = a /\ pstat[p] = "running"}
\* the adapter a takes a step of its running call
Moves(a) == pc'[a] # pc[a]

\* ---------------------------------------------------------------- C1
\* C1: every running tunnel process an adapter has spawned is the one its
\* handle holds, so at most one is alive; and when _start_iap_tunnel is about
\* to call Popen the adapter holds no handle or the held process has exited.
C1_AtMostOneTunnel ==
  \A a \in adapters :
    /\ Cardinality(OwnRunning(a)) <= 1
    /\ \A p \in OwnRunning(a) : iap_tunnel_proc[a] = p
    /\ pc[a] = "s_spawn" =>
         (iap_tunnel_proc[a] = 0 \/ pstat[iap_tunnel_proc[a]] # "running")

\* a second tunnel runs after the first has exited and been replaced
C1_Witness ==
  /\ nextPid > 2
  /\ pstat[1] = "gone"
  /\ pstat[2] = "running"
  /\ iap_tunnel_proc[1] = 2

\* ---------------------------------------------------------------- C2
\* C2: when _start_iap_tunnel has returned a port and is entered again with
\* no failure, reset or close in between and the process still running, it
\* returns that same port and starts no process.
C2_SecondCallSamePort ==
  [][ \A a \in adapters :
        ( /\ pc[a] = "s_entry"
          /\ Moves(a)
          /\ returned[a] # 0
          /\ iap_tunnel_proc[a] # 0
          /\ pstat[iap_tunnel_proc[a]] = "running" )
        => /\ pc'[a] = "c_setopt"
           /\ local_port'[a] = returned[a]
           /\ nextPid' = nextPid
           /\ pstat' = pstat
           /\ iap_tunnel_proc'[a] = iap_tunnel_proc[a] ]_vars

\* the second call has returned the port of the running tunnel
C2_Witness ==
  /\ pc[1] = "c_setopt"
  /\ callPid[1] = 0
  /\ nextPid = 2
  /\ local_port[1] # 0
  /\ local_port[1] = opts[1].port

\* ---------------------------------------------------------------- C3
\* C3: when a tunnel has to be started and gcp_project or gcp_zone is absent,
\* _start_iap_tunnel ends with the configuration error, no process is
\* spawned and the handle is left as it was.
C3_ConfigErrorBeforeSpawn ==
  [][ \A a \in adapters :
        ( /\ pc[a] = "s_entry"
          /\ Moves(a)
          /\ ~(iap_tunnel_proc[a] # 0 /\ pstat[iap_tunnel_proc[a]] = "running")
          /\ (opts[a].gcp_project = "None" \/ opts[a].gcp_zone = "None") )
        => /\ pc'[a] = "idle"
           /\ result'[a] = "AnsibleError"
           /\ nextPid' = nextPid
           /\ pstat' = pstat
           /\ iap_tunnel_proc' = iap_tunnel_proc
           /\ iap_local_port' = iap_local_port ]_vars

\* a connect() has failed for a missing zone
C3_Witness ==
  /\ Idle(1)
  /\ result[1] = "AnsibleError"
  /\ opts[1].gcp_project # "None"
  /\ opts[1].gcp_zone = "None"
  /\ nextPid = 1

\* ---------------------------------------------------------------- C4
StartFailures ==
  {"tunnel_exited", "discovery_timeout", "tunnel_died", "readiness_timeout"}

\* C4: when _start_iap_tunnel has failed after spawning (the process exited
\* before reporting a port, discovery timeout, death while probing, readiness
\* timeout), the error reaches the caller with the handle cleared and the
\* spawned process not running.
C4_FailedStartTornDown ==
  \A a \in adapters :
    (Idle(a) /\ result[a] \in StartFailures /\ callPid[a] # 0)
      => /\ HandleCleared(a)
         /\ pstat[callPid[a]] # "running"

\* ---------------------------------------------------------------- C5
\* C5: after close() has finished, normally or with an error, the adapter
\* holds no tunnel handle and none of its tunnel processes is running.
C5_CloseAlwaysTearsDown ==
  \A a \in adapters :
    (Idle(a) /\ op[a] = "close")
      => /\ HandleCleared(a)
         /\ OwnRunning(a) = {}

\* ---------------------------------------------------------------- C6
\* C6: in reset() the session (protocol, shell_id) and the connected flag are
\* untouched while the tunnel is torn down, they are cleared with the handle
\* already cleared, connect() is entered only after both, and after a
\* successful reset() the handle holds a process spawned by this reset() and
\* a port parsed from that process's output.
C6_ResetOrder ==
  /\ [][ \A a \in adapters :
           (op[a] = "reset" /\ pc[a] \in StopLabels)
             => /\ protocol'[a] = protocol[a]
                /\ shell_id'[a] = shell_id[a]
                /\ connected'[a] = connected[a]
                /\ pc'[a] \in StopLabels \cup {"r_clear", "idle"} ]_vars
  /\ [](\A a \in adapters :
          /\ pc[a] = "r_clear" => HandleCleared(a)
          /\ (op[a] = "reset" /\ pc[a] \in {"c_check", "s_entry", "s_spawn"})
               => /\ HandleCleared(a)
                  /\ protocol[a] = "None"
                  /\ shell_id[a] = "None"
                  /\ ~connected[a]
          /\ (Idle(a) /\ op[a] = "reset" /\ result[a] = "None")
               => /\ callPid[a] # 0
                  /\ iap_tunnel_proc[a] = callPid[a]
                  /\ iap_local_port[a] # 0
                  /\ portFrom[a] = callPid[a])

\* a reset() of a connected adapter has succeeded on a second tunnel
C6_Witness ==
  /\ Idle(1)
  /\ op[1] = "reset"
  /\ result[1] = "None"
  /\ connected[1]
  /\ iap_tunnel_proc[1] = 2
  /\ pstat[1] = "gone"

\* ---------------------------------------------------------------- C7
\* C7: when the wrapped WinRM connect procedure is invoked,
\* _start_iap_tunnel has returned a port, remote_addr is 'localhost' and the
\* port option is the local port held in the handle.
C7_WinrmThroughTunnel ==
  \A a \in adapters :
    pc[a] = "c_winrm"
      => /\ local_port[a] # 0
         /\ opts[a].remote_addr = "localhost"
         /\ opts[a].port = iap_local_port[a]
         /\ opts[a].port = local_port[a]

\* ---------------------------------------------------------------- C8
\* C8: when the wrapped WinRM connect procedure is invoked, the certificate
\* validation setting is 'ignore'.
C8_CertValidationIgnored ==
  \A a \in adapters :
    pc[a] = "c_winrm" => opts[a].cert_validation = "ignore"

\* ---------------------------------------------------------------- C9
\* C9: connect() on a connected adapter returns the adapter and changes
\* nothing: no process, handle, option or NO_PROXY change, and the wrapped
\* connect procedure is not invoked.
C9_ConnectNoOp ==
  [][ \A a \in adapters :
        (pc[a] = "c_check" /\ op[a] = "connect" /\ connected[a] /\ Moves(a))
          => /\ pc'[a] = "idle"
             /\ result'[a] = "self"
             /\ UNCHANGED << iap_tunnel_proc, iap_local_port, connected,
                             protocol, shell_id, opts, NO_PROXY, pstat,
                             nextPid, pending, callPid >> ]_vars

\* connect() has been called on a connected adapter and is at line 332
C9_Witness ==
  /\ pc[1] = "c_check"
  /\ op[1] = "connect"
  /\ connected[1]
  /\ iap_tunnel_proc[1] # 0

\* ---------------------------------------------------------------- C10
\* C10: _stop_iap_tunnel never raises, and whenever it has returned the
\* handle is cleared.
C10_StopNeverRaises ==
  \A a \in adapters :
    /\ result[a] # "TimeoutExpired"
    /\ pc[a] = "r_clear" => HandleCleared(a)
    /\ (Idle(a) /\ result[a] \in {"discovery_timeout", "readiness_timeout"})
         => HandleCleared(a)
    /\ (Idle(a) /\ op[a] = "close" /\ result[a] = "None") => HandleCleared(a)


\* ---------------------------------------------------------------- C11
\* C11: NO_PROXY changes only in a connect that goes on to start a tunnel,
\* and only from unset to 'localhost'; a value that is set, by the user or by
\* an earlier connect, is never changed by any operation.
C11_NoProxyOnlyWhenUnset ==
  [][ /\ NO_PROXY # "unset" => NO_PROXY' = NO_PROXY
      /\ NO_PROXY' # NO_PROXY =>
           /\ NO_PROXY' = "localhost"
           /\ \E a \in adapters :
                pc[a] = "c_check" /\ ~connected[a] /\ pc'[a] = "s_entry" ]_vars

\* a reset() of a connected adapter has gone through connect() and ended with
\* the value the user had set still in place
C11_Witness ==
  /\ NO_PROXY = "corp.example"
  /\ Idle(1)
  /\ op[1] = "reset"
  /\ result[1] = "None"
  /\ connected[1]


\* ---------------------------------------------------------------- C12
\* C12: every termination signal an adapter sends goes to the process group
\* of a tunnel process that this adapter spawned (or to nobody, when that
\* process no longer exists), never to the group of another adapter's tunnel
\* or of an unrelated process.
C12_SignalsOwnTunnelOnly ==
  \A a \in adapters :
    \A i \in 1..Len(sigs[a]) :
      /\ owner[sigs[a][i].pid] = a
      /\ sigs[a][i].to \in {"tunnel", "nobody"}


C14_ExitFailsAtOnce ==
  [][ \A a \in adapters :
        ( /\ pc[a] \in {"s_p1_head", "s_p2_head"}
          /\ elapsed[a] < TunnelTimeout * TicksPerSecond
          /\ pstat[iap_tunnel_proc[a]] # "running"
          /\ Moves(a) )
        => /\ pc'[a] = "idle"
           /\ result'[a] =
                (IF pc[a] = "s_p1_head" THEN "tunnel_exited" ELSE "tunnel_died")
           /\ errinfo'[a].rc = pstat[iap_tunnel_proc[a]]
           /\ errinfo'[a].rc \in {"rc=0", "rc=1", "rc=-15", "rc=-9"}
           /\ pc[a] = "s_p1_head" =>
                /\ Len(errinfo'[a].text) >= Len(collected_stderr[a])
                /\ SubSeq(errinfo'[a].text, 1, Len(collected_stderr[a]))
                     = collected_stderr[a] ]_vars

\* the process has exited after one line was read and another was written,
\* and the failure carries both
C14_Witness ==
  /\ Idle(1)
  /\ result[1] = "tunnel_exited"
  /\ errinfo[1].rc = "rc=1"
  /\ Len(errinfo[1].text) >= 2


C16_FirstMatchWins ==
  /\ [](\A a \in adapters :
          ( /\ pc[a] \in {"s_p2_head", "s_p2_probe", "c_setopt"}
            /\ callPid[a] # 0
            /\ portFrom[a] = callPid[a] )
          => \E i \in 1..Len(collected_stderr[a]) :
               /\ collected_stderr[a][i].kind \in {"listening", "picking"}
               /\ \A j \in 1..(i - 1) : collected_stderr[a][j].kind = "noise"
               /\ iap_local_port[a] =
                    (IF collected_stderr[a][i].kind = "listening"
                     THEN 54321 ELSE 9000))
  /\ [][ \A a \in adapters :
           ( /\ pc[a] \in {"s_p2_head", "s_p2_probe"}
             /\ pc'[a] \in {"s_p2_head", "s_p2_probe", "c_setopt"} )
           => iap_local_port'[a] = iap_local_port[a] ]_vars

\* 'Picking local unused port [9000]' was read after a line without a port
\* and the port is being probed
C16_Witness ==
  /\ pc[1] = "s_p2_probe"
  /\ portFrom[1] = callPid[1]
  /\ callPid[1] # 0
  /\ Len(collected_stderr[1]) = 2
  /\ collected_stderr[1][1].kind = "noise"
  /\ collected_stderr[1][2].kind = "picking"
  /\ iap_local_port[1] = 9000


\* ---------------------------------------------------------------- C17
\* C17: in a run of gcp_reset_windows_password with vault_encrypt true and
\* vault_password_file not given (None or empty), the gcloud command is never
\* run and no file is written, and the run ends with the failure that names
\* the missing parameter.
C17_VaultPasswordRequired ==
  (module.vault_encrypt /\ module.vault_password_file \in {"None", ""})
    => /\ module.gcloud_runs = 0
       /\ module.files = {}
       /\ module.pc \in {"m_check", "m_done"}
       /\ module.pc = "m_done"
            => module.result = "vault_password_file is required"

\* the run has failed for the missing vault_password_file
C17_Witness ==
  /\ module.pc = "m_done"
  /\ module.vault_encrypt
  /\ module.vault_password_file = "None"
  /\ module.result = "vault_password_file is required"
  /\ module.gcloud_runs = 0


\* ---------------------------------------------------------------- C18
\* C18: the signals of one _stop_iap_tunnel are SIGTERM, then possibly
\* SIGKILL, both for the pid in the handle; SIGKILL is sent only from the
\* first wait with the process still running, never when the process has
\* exited by then and never without a process.
C18_EscalationOrder ==
  /\ [](\A a \in adapters :
          /\ Len(sigs[a]) <= 2
          /\ Len(sigs[a]) >= 1 => sigs[a][1].sig = "SIGTERM"
          /\ Len(sigs[a]) = 2 =>
               /\ sigs[a][2].sig = "SIGKILL"
               /\ sigs[a][2].pid = sigs[a][1].pid
          /\ pc[a] \in {"t_wait1", "t_wait2"} =>
               /\ Len(sigs[a]) >= 1
               /\ sigs[a][1].pid = iap_tunnel_proc[a])
  /\ [][ \A a \in adapters :
           /\ Len(sigs'[a]) > Len(sigs[a]) =>
                \/ /\ pc[a] = "t_entry"
                   /\ iap_tunnel_proc[a] # 0
                   /\ Len(sigs'[a]) = 1
                \/ /\ pc[a] = "t_wait1"
                   /\ pstat[iap_tunnel_proc[a]] = "running"
                   /\ Len(sigs'[a]) = 2
           /\ (pc[a] = "t_entry" /\ iap_tunnel_proc[a] = 0 /\ Moves(a)) =>
                sigs'[a] = << >> /\ pc'[a] \notin {"t_wait1", "t_wait2"}
           /\ ( /\ pc[a] = "t_wait1"
                /\ pstat[iap_tunnel_proc[a]] # "running"
                /\ Moves(a) ) =>
                sigs'[a] = sigs[a] /\ pc'[a] # "t_wait2" ]_vars

\* SIGKILL has followed SIGTERM for a process that is still running
C18_Witness ==
  /\ pc[1] = "t_wait2"
  /\ Len(sigs[1]) = 2
  /\ sigs[1][2].sig = "SIGKILL"
  /\ pstat[iap_tunnel_proc[1]] = "running"
  /\ pending[iap_tunnel_proc[1]] = "SIGKILL"


\* ---------------------------------------------------------------- C19
\* C19: when a call of _start_iap_tunnel that spawned a process returns a
\* port, the handle holds that process, the port was parsed from the output
\* of that process, a TCP connection to the port has just succeeded, and the
\* probe was begun only after the poll of the same loop pass had found the
\* process running.
C19_ReturnedPortIsFresh ==
  [][ \A a \in adapters :
        /\ (pc'[a] = "c_setopt" /\ pc[a] # "c_setopt" /\ callPid[a] # 0) =>
             /\ pc[a] = "s_p2_probe"
             /\ iap_tunnel_proc[a] = callPid[a]
             /\ portFrom[a] = callPid[a]
             /\ iap_local_port[a] # 0
             /\ local_port'[a] = iap_local_port[a]
             /\ iap_local_port'[a] = iap_local_port[a]
             /\ \E p \in Pids :
                  pstat[p] = "running" /\ plisten[p] = iap_local_port[a]
        /\ (pc'[a] = "s_p2_probe" /\ pc[a] # "s_p2_probe") =>
             /\ pc[a] = "s_p2_head"
             /\ portFrom[a] = callPid[a]
             /\ pstat[iap_tunnel_proc[a]] = "running" ]_vars

\* the second process of the adapter has announced a port, the port has
\* accepted a connection and is returned to _connect
C19_Witness ==
  /\ pc[1] = "c_setopt"
  /\ callPid[1] = 2
  /\ iap_tunnel_proc[1] = 2
  /\ portFrom[1] = 2
  /\ local_port[1] # 0
  /\ local_port[1] = iap_local_port[1]
  /\ plisten[2] = local_port[1]


\* ---------------------------------------------------------------- C20
\* C20: every tunnel an adapter launches targets the instance and the remote
\* port of its first launch: the configured gcp_instance_name or else the
\* configured address of the host, and the configured WinRM port (5986 in
\* every configuration of the model), also after reset() and after a
\* connect() that follows close().
C20_SameTargetEveryLaunch ==
  \A a \in adapters :
    cmd[a] # NoCmd
      => /\ cmd[a] = first_cmd[a]
         /\ cmd[a].instance \in {"inst", InventoryHost}
         /\ cmd[a].port = 5986

====
